---------------------------- MODULE Spec2Model ----------------------------
(***************************************************************************)
(* Model of the EV market research crew (src/new.py, the Gradio/Gemini     *)
(* variant, and src/crewai_opencommerce.py, the OpenCommerce SDK variant). *)
(*                                                                         *)
(* A text is a sequence of tokens; f-strings and string concatenation are  *)
(* sequence concatenation.  An optional value (Python None or a value) is  *)
(* a sequence of length 0 or 1.                                            *)
(*                                                                         *)
(* The crew is run by crewai's Crew.kickoff() under Process.sequential:    *)
(* the tasks of the list handed to Crew(...) are executed one after the    *)
(* other, each task's description is extended by the raw outputs of its    *)
(* context tasks, and an exception of an agent leaves kickoff().  The      *)
(* agent (an LLM) is opaque: it may call its tools and then either answers *)
(* with a text or raises.                                                  *)
(***************************************************************************)
EXTENDS Integers, Sequences, FiniteSets, TLC

VARIABLES
    entry,       \* which entry point was invoked: "none", "ui", "direct", "main"
    topic,       \* the topic text handed to the entry point
    pc,          \* position of the caller's thread
    built,       \* what __init__ has constructed: subset of {"tools","agents","tasks","crew"}
    idx,         \* kickoff: index into the crew's task list of the current task
    status,      \* per task: "Pending", "Running", "Completed", "Failed"
    output,      \* per task: task.output.raw (meaningful once Completed)
    prompt,      \* per task: the text handed to the task's agent
    calls,       \* tool calls made by the agent of the running task
    lastTool,    \* optional record of the latest BaseTool._run call
    toolFailed,  \* tasks during which a tool backend raised
    result,      \* optional dict returned by run_research
    error,       \* optional exception that left run_research
    uiOut,       \* optional 3-tuple returned by run_market_research_ui
    execCount,   \* per task: how many times its agent was started
    startOrder   \* the tasks in the order they were started

vars == <<entry, topic, pc, built, idx, status, output, prompt, calls, lastTool,
          toolFailed, result, error, uiOut, execCount, startOrder>>

-----------------------------------------------------------------------------
(* Bounds *)

MaxTopicLen == 2

MaxToolCalls == 1

MaxClock == 1

-----------------------------------------------------------------------------
(* Texts *)

IsInfixAt(p, s, i) ==
    /\ i >= 1
    /\ i + Len(p) - 1 <= Len(s)
    /\ SubSeq(s, i, i + Len(p) - 1) = p

IsInfix(p, s) == \E i \in 1..(Len(s) + 1) : IsInfixAt(p, s, i)

\* a occurs in s, and b occurs in s after that occurrence of a
InOrder(a, b, s) ==
    \E i \in 1..(Len(s) + 1) :
        /\ IsInfixAt(a, s, i)
        /\ \E j \in (i + Len(a))..(Len(s) + 1) : IsInfixAt(b, s, j)

Whitespace == {" ", "\t", "\n"}

RECURSIVE LStrip(_)
LStrip(s) ==
    IF s # <<>> /\ Head(s) \in Whitespace THEN LStrip(Tail(s)) ELSE s

RECURSIVE RStrip(_)
RStrip(s) ==
    IF s # <<>> /\ s[Len(s)] \in Whitespace
    THEN RStrip(SubSeq(s, 1, Len(s) - 1))
    ELSE s

\* str.strip()
Strip(s) == RStrip(LStrip(s))

TopicChars == {" ", "\t", "a"}

Topics == UNION {[1..n -> TopicChars] : n \in 0..MaxTopicLen}


-----------------------------------------------------------------------------
(* The fixed topology: tools, agents, tasks, crew *)

\* The program an entry point belongs to.
Program(e) == IF e = "main" THEN "opencommerce" ELSE "new"

\* The keys of the dict returned by _create_tasks, in insertion order.
TaskNames == <<"market_research", "tech_analysis", "strategy">>

TaskSet == {TaskNames[i] : i \in 1..Len(TaskNames)}

\* Fault: the crew is handed the tasks in reverse order.
CrewTasks_Reversed == <<"strategy", "tech_analysis", "market_research">>

\* Crew(tasks=list(self.tasks.values()), process=Process.sequential)
CrewTasks == TaskNames

\* Fault: the context list of strategy in the wrong order.
ContextOf_Swapped(t) ==
    CASE t = "market_research" -> <<>>
      [] t = "tech_analysis"   -> <<"market_research">>
      [] t = "strategy"        -> <<"tech_analysis", "market_research">>

\* Task(..., context=[...])
ContextOf(t) ==
    CASE t = "market_research" -> <<>>
      [] t = "tech_analysis"   -> <<"market_research">>
      [] t = "strategy"        -> <<"market_research", "tech_analysis">>

\* Agent(..., tools=[...]) of the agent bound to task t
AgentTools(p, t) ==
    IF p = "new"
    THEN (IF t = "market_research" THEN {"tavily", "gemini"} ELSE {"gemini"})
    ELSE (IF t = "market_research" THEN {"tavily"} ELSE {"gpt"})

\* Task(description=...): new.py embeds the topic, crewai_opencommerce.py has none.
Description(p, t, tp) ==
    IF p = "new"
    THEN CASE t = "market_research" ->
                <<"Conduct comprehensive market research on the EV industry focused on: ">>
                \o tp \o <<". Provide structured report with data.">>
           [] t = "tech_analysis" ->
                <<"Analyze EV tech trends related to: ">> \o tp \o <<". ...">>
           [] t = "strategy" ->
                <<"Create strategic insights around ">> \o tp \o <<": ...">>
    ELSE CASE t = "market_research" ->
                <<"Conduct comprehensive market research on the EV industry: ...">>
           [] t = "tech_analysis" ->
                <<"Analyze technological trends in the EV industry, building on the market research: ...">>
           [] t = "strategy" ->
                <<"Synthesize market and technical research into strategic insights: ...">>

-----------------------------------------------------------------------------
(* Tool adapters *)

\* What the agent may ask a tool.
Queries == {<<"ev">>}

ErrMsgs == {<<"timeout">>, <<>>}

\* What the backend of a tool does with a call: it returns a str, it returns
\* an object that is no str (Dict[str, Any] for sdk.use_service, a response
\* without .text for Gemini), or it raises Exception(msg).
BackendOutcomes ==
    {[ok |-> TRUE, kind |-> k, val |-> <<"R">>] : k \in {"text", "object"}}
    \cup {[ok |-> FALSE, kind |-> "exception", val |-> m] : m \in ErrMsgs}

\* new.py's TavilySearchTool is a stub that calls no backend.
NoBackend == [ok |-> TRUE, kind |-> "none", val |-> <<>>]

\* The outcomes of the backend a tool calls.
BackendOf(p, tool) ==
    IF p = "new" /\ tool = "tavily" THEN {NoBackend} ELSE BackendOutcomes

\* str(x) of an object that is no str
Str(v) == <<"str(">> \o v \o <<")">>

\* What _run gives its caller: raised or returned, the type and the value.
Returned(ty, v) == [raised |-> FALSE, type |-> ty, val |-> v]

Raised(v) == [raised |-> TRUE, type |-> "exception", val |-> v]

\* new.py TavilySearchTool._run
NewTavilyRun(q, b) == Returned("str", <<"Search results for: ">> \o q)

\* Fault: _run without its try/except.
GeminiRun_NoTry(q, b) ==
    IF b.ok
    THEN Returned("str", IF b.kind = "text" THEN b.val ELSE Str(b.val))
    ELSE Raised(b.val)

\* new.py GeminiResearchTool._run
GeminiRun(q, b) ==
    IF b.ok
    THEN Returned("str", IF b.kind = "text" THEN b.val ELSE Str(b.val))
    ELSE Returned("str", <<"Error in Gemini Research: ">> \o b.val)

\* crewai_opencommerce.py TavilySearchTool._run
SdkTavilyRun(q, b) ==
    IF b.ok
    THEN Returned(IF b.kind = "text" THEN "str" ELSE "dict", b.val)
    ELSE Returned("str", b.val)

\* crewai_opencommerce.py GPTResearchTool._run
GPTRun(q, b) ==
    IF b.ok
    THEN Returned(IF b.kind = "text" THEN "str" ELSE "dict", b.val)
    ELSE Returned("str", b.val)

ToolRun(p, tool, q, b) ==
    CASE p = "new" /\ tool = "tavily"          -> NewTavilyRun(q, b)
      [] p = "new" /\ tool = "gemini"          -> GeminiRun(q, b)
      [] p = "opencommerce" /\ tool = "tavily" -> SdkTavilyRun(q, b)
      [] p = "opencommerce" /\ tool = "gpt"    -> GPTRun(q, b)

\* The strings the adapters print or return in front of a failure.
ErrorMarkers == {"Error in Gemini Research: ", "Error in Tavily search: ",
                 "Error in GPT Research: "}

\* The text the agent reads from a tool's return value.
AsText(r) == IF r.type = "str" THEN r.val ELSE Str(r.val)

-----------------------------------------------------------------------------
(* The agent and the exceptions *)

\* What an agent may answer on its own (the empty answer included).
BaseAnswers == {<<>>, <<"A">>, <<"B">>}

\* What an agent's execution may raise.
AgentErrors == {[type |-> "ValueError", msg |-> <<"llm failed">>]}

\* Fault: the except clause drops the cause.
RunResearchError_NoCause(p, e) ==
    IF p = "new"
    THEN [type |-> "RuntimeError", msg |-> <<"Error during research process: ">>]
    ELSE [type |-> "RuntimeError", msg |-> <<>>]

\* The exception that leaves run_research when kickoff() or the assembly of
\* the result raised e: new.py wraps it, crewai_opencommerce.py re-raises it.
RunResearchError(p, e) ==
    IF p = "new"
    THEN [type |-> "RuntimeError",
          msg |-> <<"Error during research process: ">> \o e.msg]
    ELSE e

\* Fault: the dict's entries read from the wrong tasks.
ResultBundle_Shifted(ts, out) ==
    [timestamp       |-> ts,
     market_research |-> out["market_research"],
     tech_analysis   |-> out["market_research"],
     strategy        |-> out["tech_analysis"]]

\* The dict run_research returns.
ResultBundle(ts, out) ==
    [timestamp       |-> ts,
     market_research |-> out["market_research"],
     tech_analysis   |-> out["tech_analysis"],
     strategy        |-> out["strategy"]]

\* What a context task contributes to a prompt: its raw output, nothing while
\* it has none.
RECURSIVE ContextText(_, _, _)
ContextText(ctx, st, out) ==
    IF ctx = <<>> THEN <<>>
    ELSE (IF st[Head(ctx)] = "Completed"
          THEN <<"----------">> \o out[Head(ctx)]
          ELSE <<>>)
         \o ContextText(Tail(ctx), st, out)

\* The text handed to the agent of task t: the description followed by the
\* outputs of the context tasks in the order of the context list.
ComposePrompt(p, t, tp, st, out) ==
    Description(p, t, tp) \o ContextText(ContextOf(t), st, out)

\* Fault: `not topic` in place of `not topic.strip()`.
IsBlank_NoStrip(tp) == tp = <<>>

\* not topic.strip()
IsBlank(tp) == Strip(tp) = <<>>

AllBuilt == {"tools", "agents", "tasks", "crew"}

-----------------------------------------------------------------------------
(* State machine *)

Init ==
    /\ entry = "none"
    /\ topic = <<>>
    /\ pc = "idle"
    /\ built = {}
    /\ idx = 0
    /\ status = [t \in TaskSet |-> "Pending"]
    /\ output = [t \in TaskSet |-> <<>>]
    /\ prompt = [t \in TaskSet |-> <<>>]
    /\ calls = 0
    /\ lastTool = <<>>
    /\ toolFailed = {}
    /\ result = <<>>
    /\ error = <<>>
    /\ uiOut = <<>>
    /\ execCount = [t \in TaskSet |-> 0]
    /\ startOrder = <<>>

\* new.py run_market_research_ui, up to the end of the constructor.
UiSubmit(tp) ==
    /\ pc = "idle"
    /\ entry' = "ui"
    /\ topic' = tp
    /\ IF IsBlank(tp)
       THEN /\ pc' = "rejected"
            /\ uiOut' = <<<<"Please enter a valid topic.">>, <<>>, <<>>>>
            /\ built' = built
       ELSE /\ pc' = "built"
            /\ uiOut' = uiOut
            /\ built' = AllBuilt
    /\ UNCHANGED <<idx, status, output, prompt, calls, lastTool, toolFailed,
                   result, error, execCount, startOrder>>

\* new.py EVMarketResearchCrew.__init__(topic), called by any other caller.
Construct(tp) ==
    /\ pc = "idle"
    /\ entry' = "direct"
    /\ topic' = tp
    /\ pc' = "built"
    /\ built' = AllBuilt
    /\ UNCHANGED <<idx, status, output, prompt, calls, lastTool, toolFailed,
                   result, error, uiOut, execCount, startOrder>>

\* crewai_opencommerce.py main, up to the end of the constructor.
Main ==
    /\ pc = "idle"
    /\ entry' = "main"
    /\ pc' = "built"
    /\ built' = AllBuilt
    /\ UNCHANGED <<topic, idx, status, output, prompt, calls, lastTool, toolFailed,
                   result, error, uiOut, execCount, startOrder>>

\* run_research enters self.crew.kickoff().
Kickoff ==
    /\ pc = "built"
    /\ pc' = "kickoff"
    /\ idx' = 1
    /\ UNCHANGED <<entry, topic, built, status, output, prompt, calls, lastTool,
                   toolFailed, result, error, uiOut, execCount, startOrder>>

Current == CrewTasks[idx]

\* kickoff() hands the next task of the list to its agent.
StartTask ==
    /\ pc = "kickoff"
    /\ idx <= Len(CrewTasks)
    /\ status[Current] = "Pending"
    /\ status' = [status EXCEPT ![Current] = "Running"]
    /\ prompt' = [prompt EXCEPT
                    ![Current] = ComposePrompt(Program(entry), Current, topic,
                                               status, output)]
    /\ execCount' = [execCount EXCEPT ![Current] = @ + 1]
    /\ startOrder' = Append(startOrder, Current)
    /\ calls' = 0
    /\ lastTool' = <<>>
    /\ UNCHANGED <<entry, topic, pc, built, idx, output, toolFailed, result,
                   error, uiOut>>

\* The exception e of the running task's agent leaves kickoff() and reaches
\* the except clause of run_research.
FailRun(e) ==
    /\ status' = [status EXCEPT ![Current] = "Failed"]
    /\ error' = <<RunResearchError(Program(entry), e)>>
    /\ pc' = "raised"

\* The running agent calls one of its tools.
ToolCall(tool, q, b) ==
    /\ pc = "kickoff"
    /\ idx <= Len(CrewTasks)
    /\ status[Current] = "Running"
    /\ calls < MaxToolCalls
    /\ tool \in AgentTools(Program(entry), Current)
    /\ b \in BackendOf(Program(entry), tool)
    /\ LET r == ToolRun(Program(entry), tool, q, b) IN
       /\ lastTool' = <<[tool |-> tool, query |-> q, backend |-> b, ret |-> r]>>
       /\ calls' = calls + 1
       /\ toolFailed' = IF b.ok THEN toolFailed ELSE toolFailed \cup {Current}
       /\ IF r.raised
          THEN FailRun([type |-> "Exception", msg |-> r.val])
          ELSE UNCHANGED <<status, error, pc>>
    /\ UNCHANGED <<entry, topic, built, idx, output, prompt, result, uiOut,
                   execCount, startOrder>>

\* The answers open to the running agent: its own, or one built on what its
\* latest tool call returned.
Answers ==
    BaseAnswers
    \cup (IF lastTool = <<>> THEN {}
          ELSE {AsText(lastTool[1].ret), <<"A">> \o AsText(lastTool[1].ret)})

\* The running agent answers; kickoff() records the answer as the task's
\* output and goes on to the next task.
AgentAnswer(a) ==
    /\ pc = "kickoff"
    /\ idx <= Len(CrewTasks)
    /\ status[Current] = "Running"
    /\ a \in Answers
    /\ output' = [output EXCEPT ![Current] = a]
    /\ status' = [status EXCEPT ![Current] = "Completed"]
    /\ idx' = idx + 1
    /\ lastTool' = <<>>
    /\ calls' = 0
    /\ UNCHANGED <<entry, topic, pc, built, prompt, toolFailed, result, error,
                   uiOut, execCount, startOrder>>

\* Fault: the failed task is skipped and the next one is run.
AgentRaise_Continue(e) ==
    /\ pc = "kickoff"
    /\ idx <= Len(CrewTasks)
    /\ status[Current] = "Running"
    /\ status' = [status EXCEPT ![Current] = "Failed"]
    /\ idx' = idx + 1
    /\ lastTool' = <<>>
    /\ calls' = 0
    /\ UNCHANGED <<entry, topic, pc, built, output, prompt, toolFailed, result,
                   error, uiOut, execCount, startOrder>>

\* Fault: the failed task is run again.
AgentRaise_Retry(e) ==
    /\ pc = "kickoff"
    /\ idx <= Len(CrewTasks)
    /\ status[Current] = "Running"
    /\ execCount[Current] < 2
    /\ status' = [status EXCEPT ![Current] = "Pending"]
    /\ lastTool' = <<>>
    /\ calls' = 0
    /\ UNCHANGED <<entry, topic, pc, built, idx, output, prompt, toolFailed,
                   result, error, uiOut, execCount, startOrder>>

\* The running agent raises: kickoff() raises, run_research raises.
AgentRaise(e) ==
    /\ pc = "kickoff"
    /\ idx <= Len(CrewTasks)
    /\ status[Current] = "Running"
    /\ FailRun(e)
    /\ lastTool' = <<>>
    /\ calls' = 0
    /\ UNCHANGED <<entry, topic, built, idx, output, prompt, toolFailed, result,
                   uiOut, execCount, startOrder>>

\* kickoff() has returned: run_research reads the three outputs and returns
\* the dict; run_market_research_ui returns its three sections.
Return(ts) ==
    /\ pc = "kickoff"
    /\ idx > Len(CrewTasks)
    /\ IF \A t \in TaskSet : status[t] = "Completed"
       THEN /\ result' = <<ResultBundle(ts, output)>>
            /\ pc' = "returned"
            /\ error' = error
            /\ uiOut' = IF entry = "ui"
                        THEN <<result'[1].market_research, result'[1].tech_analysis,
                               result'[1].strategy>>
                        ELSE uiOut
       ELSE \* task.output is None: .raw raises AttributeError
            /\ error' = <<RunResearchError(Program(entry),
                            [type |-> "AttributeError",
                             msg |-> <<"'NoneType' object has no attribute 'raw'">>])>>
            /\ pc' = "raised"
            /\ UNCHANGED <<result, uiOut>>
    /\ UNCHANGED <<entry, topic, built, idx, status, output, prompt, calls,
                   lastTool, toolFailed, execCount, startOrder>>

Next ==
    \/ \E tp \in Topics : UiSubmit(tp)
    \/ \E tp \in Topics : Construct(tp)
    \/ Main
    \/ Kickoff
    \/ StartTask
    \/ \E tool \in {"tavily", "gemini", "gpt"}, q \in Queries,
          b \in BackendOutcomes \cup {NoBackend} :
           ToolCall(tool, q, b)
    \/ \E a \in Answers : AgentAnswer(a)
    \/ \E e \in AgentErrors : AgentRaise(e)
    \/ \E ts \in 1..MaxClock : Return(ts)

Spec == Init /\ [][Next]_vars

-----------------------------------------------------------------------------
(* Properties *)

Running == {t \in TaskSet : status[t] = "Running"}

\* C1: tasks start in the order market_research, tech_analysis, strategy; a
\* task has left Pending only if every task before it is Completed; at most
\* one task is Running.
C1_DeclarationOrder ==
    /\ Len(startOrder) <= 3
    /\ \A i \in 1..Len(startOrder) :
           startOrder[i] = <<"market_research", "tech_analysis", "strategy">>[i]
    /\ status["tech_analysis"] # "Pending" => status["market_research"] = "Completed"
    /\ status["strategy"] # "Pending" =>
           /\ status["market_research"] = "Completed"
           /\ status["tech_analysis"] = "Completed"
    /\ Cardinality(Running) <= 1

C1_Witness ==
    /\ startOrder = <<"market_research", "tech_analysis", "strategy">>
    /\ status["strategy"] = "Running"

\* C2 as claimed: a Failed task ends the run with a TaskExecutionError that
\* names the task, and no later task leaves Pending.
C2_Original ==
    \A i \in 1..3 :
        status[TaskNames[i]] = "Failed" =>
            /\ pc = "raised"
            /\ error # <<>>
            /\ error[1].type = "TaskExecutionError"
            /\ IsInfix(<<TaskNames[i]>>, error[1].msg)
            /\ \A j \in (i + 1)..3 : status[TaskNames[j]] = "Pending"

\* C2 as amended: when a task's agent raises e, the task is Failed,
\* run_research raises (new.py: RuntimeError("Error during research process: "
\* + str(e)); crewai_opencommerce.py: e itself), returns nothing, and no
\* later task leaves Pending.  The exception carries e; run_research adds
\* no task name to it.
C2_FailureStopsRun ==
    \A i \in 1..3 :
        status[TaskNames[i]] = "Failed" =>
            /\ pc = "raised"
            /\ result = <<>>
            /\ \E e \in AgentErrors :
                   error = <<IF entry = "main" THEN e
                             ELSE [type |-> "RuntimeError",
                                   msg |-> <<"Error during research process: ">>
                                           \o e.msg]>>
            /\ \A j \in (i + 1)..3 : status[TaskNames[j]] = "Pending"

C2_Witness ==
    /\ status["market_research"] = "Completed"
    /\ status["tech_analysis"] = "Failed"
    /\ entry = "ui"
    /\ pc = "raised"

\* C3: a result is returned only when all three tasks are Completed, with one
\* entry per task equal to that task's output (and a timestamp); once a task
\* has Failed nothing is returned.
C3_AllOrNothing ==
    /\ result # <<>> =>
           /\ pc = "returned"
           /\ error = <<>>
           /\ \A t \in TaskSet : status[t] = "Completed"
           /\ DOMAIN result[1] = {"timestamp"} \cup TaskSet
           /\ \A t \in TaskSet : result[1][t] = output[t]
    /\ (\E t \in TaskSet : status[t] = "Failed") =>
           /\ result = <<>>
           /\ uiOut = <<>>

C3_Witness ==
    /\ result # <<>>
    /\ output["market_research"] = <<"A">>
    /\ output["tech_analysis"] = <<"B">>
    /\ output["strategy"] = <<>>

\* C4 as claimed: with an empty or whitespace-only topic, building fails with
\* ConfigurationError and nothing is constructed.
C4_Original ==
    (entry \in {"ui", "direct"} /\ \A i \in 1..Len(topic) : topic[i] \in Whitespace) =>
        /\ error # <<>>
        /\ error[1].type = "ConfigurationError"
        /\ built = {}
        /\ \A t \in TaskSet : status[t] = "Pending"

\* C4 as amended: with an empty or whitespace-only topic,
\* run_market_research_ui returns ("Please enter a valid topic.", "", "")
\* without raising and without constructing anything; no task leaves
\* Pending and no tool is called.
C4_UiRejectsBlank ==
    (entry = "ui" /\ \A i \in 1..Len(topic) : topic[i] \in Whitespace) =>
        /\ pc = "rejected"
        /\ uiOut = <<<<"Please enter a valid topic.">>, <<>>, <<>>>>
        /\ error = <<>>
        /\ result = <<>>
        /\ built = {}
        /\ \A t \in TaskSet : status[t] = "Pending"
        /\ startOrder = <<>>
        /\ lastTool = <<>>
        /\ toolFailed = {}

C4_Witness ==
    /\ entry = "ui"
    /\ topic = <<" ", "\t">>
    /\ pc = "rejected"

\* C5: a tool's _run never raises and returns a string, and when its backend
\* failed the string begins with an error marker.
C5_InvokeMarksFailure ==
    lastTool # <<>> =>
        /\ ~lastTool[1].ret.raised
        /\ lastTool[1].ret.type = "str"
        /\ ~lastTool[1].backend.ok =>
               /\ lastTool[1].ret.val # <<>>
               /\ Head(lastTool[1].ret.val) \in ErrorMarkers

\* C7: the prompt of tech_analysis holds the output of market_research; the
\* prompt of strategy holds the output of market_research and, after it, the
\* output of tech_analysis.
C7_PromptCarriesContext ==
    /\ status["tech_analysis"] # "Pending" =>
           IsInfix(output["market_research"], prompt["tech_analysis"])
    /\ status["strategy"] # "Pending" =>
           InOrder(output["market_research"], output["tech_analysis"],
                   prompt["strategy"])

C7_Witness ==
    /\ status["strategy"] = "Running"
    /\ output["market_research"] = <<"A">>
    /\ output["tech_analysis"] = <<"B">>

\* C8: a Running or Completed task has every task of its context Completed,
\* and so has the task kickoff() is about to start.
C8_DependenciesCompleted ==
    /\ \A t \in TaskSet :
           status[t] \in {"Running", "Completed"} =>
               \A k \in 1..Len(ContextOf(t)) : status[ContextOf(t)[k]] = "Completed"
    /\ (pc = "kickoff" /\ idx <= Len(CrewTasks)) =>
           \A k \in 1..Len(ContextOf(Current)) :
               status[ContextOf(Current)[k]] = "Completed"

C8_Witness ==
    /\ status["strategy"] = "Completed"
    /\ status["tech_analysis"] = "Completed"
    /\ status["market_research"] = "Completed"

\* C9: a step in which a tool's backend fails leaves the run and every task's
\* status as they are: the tool returns a string, and that string is among
\* the answers then open to the agent.
C9_ToolFailureAbsorbed ==
    [][toolFailed' # toolFailed =>
           /\ pc' = pc
           /\ status' = status
           /\ error' = error
           /\ lastTool' # <<>>
           /\ ~lastTool'[1].ret.raised
           /\ lastTool'[1].ret.type = "str"
           /\ lastTool'[1].ret.val \in Answers']_vars

C9_Witness ==
    /\ toolFailed = {"market_research"}
    /\ output["market_research"] = <<"A", "Error in Gemini Research: ", "timeout">>
    /\ status["tech_analysis"] = "Completed"
    /\ pc = "returned"

\* C10: a task's status only steps Pending -> Running -> Completed or
\* Pending -> Running -> Failed, each task is started at most once, nothing
\* changes status once a task has Failed, and a run that returns has
\* started every task exactly once.
C10_OncePerRun ==
    [][\A t \in TaskSet :
           /\ status'[t] # status[t] =>
                  <<status[t], status'[t]>> \in
                      {<<"Pending", "Running">>, <<"Running", "Completed">>,
                       <<"Running", "Failed">>}
           /\ execCount'[t] = execCount[t]
                              + (IF status'[t] = "Running" /\ status[t] # "Running"
                                 THEN 1 ELSE 0)
           /\ execCount'[t] <= 1
           /\ status[t] = "Failed" => status' = status
           /\ pc' = "returned" =>
                  /\ execCount'[t] = 1
                  /\ status'[t] = "Completed"]_vars

C10_Witness ==
    /\ pc = "returned"
    /\ \A t \in TaskSet : execCount[t] = 1

=============================================================================
